---- MODULE Spec2Model ----
(***************************************************************************)
(* Commission ledger of license-api: agents, sales, payouts.               *)
(*                                                                         *)
(* Spec      models the V4.2 server (src/unnamed/part_003 + schema.sql):   *)
(*           agents.balance is a stored column, POST /api/sales and        *)
(*           POST /api/payouts run in a transaction that locks the agent   *)
(*           row with SELECT ... FOR UPDATE.                               *)
(* SpecIndex models the server of src/index.js (lines 44-436): balance is  *)
(*           derived by agentTotals, every statement is its own            *)
(*           transaction (pool.query), no row lock is taken.               *)
(* SpecRates is the part of that server that touches commission rates:     *)
(*           POST /api/agents, PUT /api/agents/:id and POST /api/sales.    *)
(* SpecCoerced, SpecRollback and SpecTwoAgents run the sale and payout      *)
(*           handlers of part_003 on bodies with null and "", with a       *)
(*           ROLLBACK that may throw, and against two agents.              *)
(* SpecReport adds GET /api/agents/:id/report of part_003 to its sales.    *)
(* SpecAuth  runs auth of part_003 and of index.js in front of             *)
(*           POST /api/agents, on strings.                                 *)
(* SpecCommission computes the commission of a sale in binary64.           *)
(* SpecHistory gives the rows of part_003 their created_at and the order   *)
(*           of their COMMIT, and the report its ORDER BY.                 *)
(* SpecFair  is the sale and payout handlers of part_003 under weak        *)
(*           fairness of every answered statement.                         *)
(* SpecRespond lets pool.connect() of part_003 fail as well.               *)
(*                                                                         *)
(* Money (NUMERIC columns) is counted in hundredths of a unit, so that     *)
(* salePrice * commission_percent / 100 is exact for whole prices.         *)
(* One step of the model is one awaited store statement together with the  *)
(* synchronous JavaScript that follows it up to the next await.            *)
(***************************************************************************)
EXTENDS Integers, FiniteSets, Sequences, TLC

\* ---------------------------------------------------------------- bounds
NumReq == 2
MaxAgents == 1

Reqs == 1..NumReq

\* ------------------------------------------------------- request values
\* A JSON body value: absent, null, a number, or a string that is not a
\* number.
Undef == [t |-> "undef", val |-> 0]
Null == [t |-> "null", val |-> 0]
Str == [t |-> "str", val |-> 0]
NaN == [t |-> "nan", val |-> 0]
Num(v) == [t |-> "num", val |-> v]

\* Number(x) of JavaScript on a body value.
Number(x) ==
    IF x.t = "num" THEN x
    ELSE IF x.t = "null" \/ (x.t = "text" /\ x.val = "") THEN Num(0)
    ELSE NaN

\* Number.isFinite(x)
isFinite(x) == x.t = "num"

\* a ?? b
Coalesce(a, b) == IF a.t \in {"undef", "null"} THEN b ELSE a

\* a string value: a header, or the API_KEY entry of the environment
Text(s) == [t |-> "text", val |-> s]

\* if (x) for a value that is a string or undefined
Truthy(x) == x.t = "text" /\ x.val /= ""

\* agent ids a request may carry: absent, text, and ids of which the last never exists
MissingAgent == MaxAgents + 1
AgentIdInputs == {Undef} \cup {Num(i) : i \in 1..MissingAgent}

\* salePrice / amount a request may carry, in hundredths (100.00 and 200.00)
PriceInputs == {Undef, Num(0), Num(10000)}
PayoutInputs == {Str, Num(0), Num(1000), Num(1500)}
PctInputs == {Num(-10), Num(10)}
NameInputs == {"", "A"}
\* a text field that is absent from the body
NoText == "undefined"
\* phone || null
OrNull(x) == IF x = NoText \/ x = "" THEN "null" ELSE x

\* agents, sales, payouts: the tables; req: the requests in flight; server:
\* the process, which file it runs and the API_KEY its environment gave it
VARIABLES agents, sales, payouts, req, server

vars == <<agents, sales, payouts, req, server>>

\* ------------------------------------------------------------ the store
AgentIds == 1..Len(agents)

\* INSERT INTO agents(name, phone, commission_percent): balance DEFAULT 0
NewAgent(name, phone, pct) ==
    [name |-> name, phone |-> phone, commission_percent |-> pct, balance |-> 0]

RECURSIVE SumOf(_, _)
SumOf(rows, field) ==
    IF rows = {} THEN 0
    ELSE LET x == CHOOSE y \in rows : TRUE
         IN  x[field] + SumOf(rows \ {x}, field)

SalesOf(a) == {s \in sales : s.agent_id = a}
PayoutsOf(a) == {p \in payouts : p.agent_id = a}

\* SUM(commission_amount) - SUM(amount) of one agent's ledger rows
LedgerBalance(a) ==
    SumOf(SalesOf(a), "commission_amount") - SumOf(PayoutsOf(a), "amount")

\* ---------------------------------------------------------- a request
\* the body of PUT /api/agents/:id and the agent row it read, while unset;
\* a request carries them (and its headers, its report) only in the handlers
\* that read them
NoBody == [name |-> NoText, phone |-> NoText, pct |-> Undef]
NoReport ==
    [commissionTotal |-> 0, payoutsTotal |-> 0, sales |-> {}, payouts |-> {}]
NoRow == [name |-> "", phone |-> "", commission_percent |-> 0, balance |-> 0]

IdleReq ==
    [pc |-> "idle", kind |-> "none", aId |-> NaN, amt |-> NaN,
     status |-> 0, error |-> "", txOpen |-> FALSE, holds |-> FALSE,
     pct |-> 0, camt |-> 0,
     wSale |-> {}, wPayout |-> {}, wDelta |-> 0, rowId |-> 0]

\* request slots are taken in order: slot r is the r-th request to arrive
Arrives(r) ==
    /\ req[r].pc = "idle"
    /\ \A o \in DOMAIN req : o < r => req[o].pc /= "idle"

\* res.status(code).json({error}) followed by finally { client.release() }:
\* the handler's locals are gone, the response stays
Reject(r, code, msg) ==
    [IdleReq EXCEPT !.pc = "done", !.kind = req[r].kind,
                    !.status = code, !.error = msg]

\* (price * commissionPercent) / 100
CommissionAmount(price, pct) == (price * pct) \div 100

\* Number(row.commission_percent) || 0
PercentOf(a) == agents[a].commission_percent

RowLockIgnored(r, a) == TRUE

\* a lock that is never granted
RowLockNever(r, a) == FALSE

\* a lock on the whole table: free when no other transaction holds any row
TableLockFree(r, a) == \A o \in DOMAIN req \ {r} : ~req[o].holds

\* the agent row is free when no other open transaction holds its lock
RowLockFree(r, a) ==
    \A o \in DOMAIN req \ {r} : ~(req[o].holds /\ req[o].aId.val = a)

Init ==
    /\ agents = <<>>
    /\ sales = {}
    /\ payouts = {}
    /\ req = [r \in Reqs |-> IdleReq]
    /\ server = [file |-> "part_003", env |-> Text("k9")]

\* POST /api/agents of part_003: only the name is validated
CreateAgent ==
    /\ Len(agents) < MaxAgents
    /\ \E name \in NameInputs, cp \in PctInputs :
          /\ name /= ""
          /\ agents' = Append(agents,
                NewAgent(name, OrNull(NoText), Coalesce(cp, Num(0)).val))
    /\ UNCHANGED <<sales, payouts, req>>
    /\ UNCHANGED server

\* a statement threw: control goes to the catch block with the transaction
\* state left as it is
Throw(r) == [req[r] EXCEPT !.pc = "catch"]

CommitAgentsNoBalance(r) == agents

CommitSalesOnly(r) == req[r].wSale

\* the committed tables after COMMIT of r's transaction
CommitSales(r) == sales \cup req[r].wSale
CommitPayouts(r) == payouts \cup req[r].wPayout
CommitAgents(r) ==
    IF req[r].aId.val \in AgentIds
    THEN [agents EXCEPT ![req[r].aId.val].balance = @ + req[r].wDelta]
    ELSE agents

RollbackSalesKept(r) == CommitSales(r)

\* the committed tables after ROLLBACK of r's transaction: its writes are gone
RollbackSales(r) == sales
RollbackPayouts(r) == payouts
RollbackAgents(r) == agents

\* res.json({ok: true, id, commissionPercent, commissionAmount}) after COMMIT
Accept(r) ==
    [IdleReq EXCEPT !.pc = "done", !.kind = req[r].kind, !.status = 200,
                    !.aId = req[r].aId, !.amt = req[r].amt,
                    !.rowId = req[r].rowId, !.pct = req[r].pct,
                    !.camt = req[r].camt]

\* SERIAL id of an inserted row: ids are opaque and unique, the model takes
\* the arrival number of the inserting request
NewId(r) == r

StoreUnchanged == UNCHANGED <<agents, sales, payouts>>
\* a store statement may fail (connection lost, timeout, constraint violation)
Fail(r) == req' = [req EXCEPT ![r] = Throw(r)]

InvalidPriceNever(price) == FALSE

\* !Number.isFinite(price) || price <= 0
InvalidPrice(price) == ~isFinite(price) \/ price.val <= 0

\* ------------------------------------------------ POST /api/sales (part_003)
\* lines 168-185: connect, read the body, validate, issue BEGIN
SaleRequest(r, agentId, rawPrice) ==
    LET aId == Number(agentId)
        price == Number(rawPrice)
        q == [req[r] EXCEPT !.kind = "sale", !.aId = aId, !.amt = price]
    IN  IF ~isFinite(aId)
        THEN [Reject(r, 400, "agentId is required") EXCEPT !.kind = q.kind]
        ELSE IF InvalidPrice(price)
        THEN [Reject(r, 400, "salePrice must be > 0") EXCEPT !.kind = q.kind]
        ELSE [q EXCEPT !.pc = "begin"]

SaleStart(r) ==
    /\ Arrives(r)
    /\ \E agentId \in AgentIdInputs, salePrice \in PriceInputs,
          sale_price \in {Undef}, amount \in {Undef, Num(-10000)} :
          req' = [req EXCEPT ![r] =
                     SaleRequest(r, agentId,
                        Coalesce(Coalesce(salePrice, sale_price), amount))]
    /\ StoreUnchanged
    /\ UNCHANGED server

\* line 185: BEGIN
SaleBegin(r) ==
    /\ req[r].pc = "begin" /\ req[r].kind = "sale"
    /\ \/ req' = [req EXCEPT ![r].pc = "select", ![r].txOpen = TRUE]
       \/ Fail(r)
    /\ StoreUnchanged
    /\ UNCHANGED server

\* lines 187-202: SELECT id, commission_percent ... FOR UPDATE, then the
\* commission is computed from the row just read
SaleSelect(r) ==
    /\ req[r].pc = "select" /\ req[r].kind = "sale"
    /\ LET a == req[r].aId.val
       IN \/ /\ a \notin AgentIds
             /\ req' = [req EXCEPT ![r].pc = "rollback404"]
            
          \/ /\ a \in AgentIds
             /\ RowLockFree(r, a)
             /\ req' = [req EXCEPT ![r].pc = "insert", ![r].holds = TRUE,
                           ![r].pct = PercentOf(a),
                           ![r].camt = CommissionAmount(req[r].amt.val, PercentOf(a))]
            
          \/ Fail(r)
    /\ StoreUnchanged
    /\ UNCHANGED server

SaleNotFoundNoRollback(r) ==
    /\ req[r].pc = "rollback404" /\ req[r].kind = "sale"
    /\ req' = [req EXCEPT ![r] =
                  [Reject(r, 404, "agent not found") EXCEPT !.txOpen = TRUE]]
    /\ StoreUnchanged
    /\ UNCHANGED server

\* lines 195-198: ROLLBACK, 404
SaleNotFound(r) ==
    /\ req[r].pc = "rollback404" /\ req[r].kind = "sale"
    /\ \/ req' = [req EXCEPT ![r] =
                    Reject(r, 404, "agent not found")]
       \/ Fail(r)
    /\ StoreUnchanged
    /\ UNCHANGED server

\* the row of INSERT INTO sales(...) VALUES($1..$6) RETURNING id
SaleRow(r, id) ==
    [id |-> id, agent_id |-> req[r].aId.val, sale_price |-> req[r].amt.val,
     commission_percent |-> req[r].pct, commission_amount |-> req[r].camt]

\* lines 204-216: INSERT INTO sales
SaleInsert(r) ==
    /\ req[r].pc = "insert" /\ req[r].kind = "sale"
    /\ \/ req' = [req EXCEPT ![r].pc = "update", ![r].rowId = NewId(r),
                     ![r].wSale = {SaleRow(r, NewId(r))}]
         
       \/ Fail(r)
    /\ StoreUnchanged
    /\ UNCHANGED server

CreditDeltaPrice(r) == req[r].amt.val

\* SET balance = balance + $1
CreditDelta(r) == req[r].camt

\* lines 218-223: UPDATE agents SET balance = balance + $1
SaleUpdate(r) ==
    /\ req[r].pc = "update" /\ req[r].kind = "sale"
    /\ \/ req' = [req EXCEPT ![r].pc = "commit",
                     ![r].wDelta = @ + CreditDelta(r)]
       \/ Fail(r)
    /\ StoreUnchanged
    /\ UNCHANGED server

\* lines 225-231: COMMIT, 200 {id, commissionPercent, commissionAmount}
SaleCommit(r) ==
    /\ req[r].pc = "commit" /\ req[r].kind = "sale"
    /\ \/ /\ sales' = CommitSales(r)
          /\ payouts' = CommitPayouts(r)
          /\ agents' = CommitAgents(r)
          /\ req' = [req EXCEPT ![r] = Accept(r)]
         
       \/ Fail(r) /\ StoreUnchanged
    /\ UNCHANGED server

\* lines 232-243: catch: ROLLBACK is carried out, 500 (a ROLLBACK that
\* throws is SaleCatchSwallowed)
SaleCatch(r) ==
    /\ req[r].pc = "catch" /\ req[r].kind = "sale"
    /\ req' = [req EXCEPT ![r] = Reject(r, 500, "Server error")]
    /\ sales' = RollbackSales(r)
    /\ payouts' = RollbackPayouts(r)
    /\ agents' = RollbackAgents(r)
    /\ UNCHANGED server

\* ---------------------------------------------- POST /api/payouts (part_003)
\* lines 248-260: connect, read the body, validate, issue BEGIN
PayoutRequest(r, agentId, amount) ==
    LET aId == Number(agentId)
        amt == Number(amount)
        q == [req[r] EXCEPT !.kind = "payout", !.aId = aId, !.amt = amt]
    IN  IF ~isFinite(aId)
        THEN [Reject(r, 400, "agentId is required") EXCEPT !.kind = q.kind]
        ELSE IF InvalidPrice(amt)
        THEN [Reject(r, 400, "amount must be > 0") EXCEPT !.kind = q.kind]
        ELSE [q EXCEPT !.pc = "begin"]

PayoutStart(r) ==
    /\ Arrives(r)
    /\ \E agentId \in AgentIdInputs, amount \in PayoutInputs :
          req' = [req EXCEPT ![r] = PayoutRequest(r, agentId, amount)]
    /\ StoreUnchanged
    /\ UNCHANGED server

\* line 260: BEGIN
PayoutBegin(r) ==
    /\ req[r].pc = "begin" /\ req[r].kind = "payout"
    /\ \/ req' = [req EXCEPT ![r].pc = "select", ![r].txOpen = TRUE]
       \/ Fail(r)
    /\ StoreUnchanged
    /\ UNCHANGED server

\* balance < amt
Insufficient(balance, amt) == balance < amt

\* lines 262-279: SELECT id, balance ... FOR UPDATE, then the balance check
PayoutSelect(r) ==
    /\ req[r].pc = "select" /\ req[r].kind = "payout"
    /\ LET a == req[r].aId.val
       IN \/ /\ a \notin AgentIds
             /\ req' = [req EXCEPT ![r].pc = "rollback404"]
            
          \/ /\ a \in AgentIds
             /\ RowLockFree(r, a)
             /\ req' = [req EXCEPT ![r].holds = TRUE,
                                           ![r].pc = IF Insufficient(agents[a].balance, req[r].amt.val)
                                     THEN "rollback400" ELSE "insert"]
            
          \/ Fail(r)
    /\ StoreUnchanged
    /\ UNCHANGED server

\* lines 270-273: ROLLBACK, 404
PayoutNotFound(r) ==
    /\ req[r].pc = "rollback404" /\ req[r].kind = "payout"
    /\ \/ req' = [req EXCEPT ![r] =
                    Reject(r, 404, "agent not found")]
       \/ Fail(r)
    /\ StoreUnchanged
    /\ UNCHANGED server

\* lines 276-279: ROLLBACK, 400
PayoutInsufficient(r) ==
    /\ req[r].pc = "rollback400" /\ req[r].kind = "payout"
    /\ \/ req' = [req EXCEPT ![r] =
                    Reject(r, 400, "insufficient balance")]
       \/ Fail(r)
    /\ StoreUnchanged
    /\ UNCHANGED server

\* the row of INSERT INTO payouts(agent_id, amount, note) RETURNING id
PayoutRow(r, id) ==
    [id |-> id, agent_id |-> req[r].aId.val, amount |-> req[r].amt.val]

\* lines 281-286: INSERT INTO payouts
PayoutInsert(r) ==
    /\ req[r].pc = "insert" /\ req[r].kind = "payout"
    /\ \/ req' = [req EXCEPT ![r].pc = "update", ![r].rowId = NewId(r),
                     ![r].wPayout = {PayoutRow(r, NewId(r))}]
         
       \/ Fail(r)
    /\ StoreUnchanged
    /\ UNCHANGED server

\* SET balance = balance - $1
DebitDelta(r) == 0 - req[r].amt.val

\* lines 288-293: UPDATE agents SET balance = balance - $1
PayoutUpdate(r) ==
    /\ req[r].pc = "update" /\ req[r].kind = "payout"
    /\ \/ req' = [req EXCEPT ![r].pc = "commit",
                     ![r].wDelta = @ + DebitDelta(r)]
       \/ Fail(r)
    /\ StoreUnchanged
    /\ UNCHANGED server

\* lines 295-296: COMMIT, 200 {id}
PayoutCommit(r) ==
    /\ req[r].pc = "commit" /\ req[r].kind = "payout"
    /\ \/ /\ sales' = CommitSales(r)
          /\ payouts' = CommitPayouts(r)
          /\ agents' = CommitAgents(r)
          /\ req' = [req EXCEPT ![r] = Accept(r)]
         
       \/ Fail(r) /\ StoreUnchanged
    /\ UNCHANGED server

\* lines 297-308: catch: ROLLBACK is carried out, 500 (a ROLLBACK that
\* throws is PayoutCatchSwallowed)
PayoutCatch(r) ==
    /\ req[r].pc = "catch" /\ req[r].kind = "payout"
    /\ req' = [req EXCEPT ![r] = Reject(r, 500, "Server error")]
    /\ sales' = RollbackSales(r)
    /\ payouts' = RollbackPayouts(r)
    /\ agents' = RollbackAgents(r)
    /\ UNCHANGED server

Next ==
    \/ CreateAgent
    \/ \E r \in Reqs :
          \/ SaleStart(r) \/ SaleBegin(r) \/ SaleSelect(r) \/ SaleNotFound(r)
          \/ SaleInsert(r) \/ SaleUpdate(r) \/ SaleCommit(r) \/ SaleCatch(r)
          \/ PayoutStart(r) \/ PayoutBegin(r) \/ PayoutSelect(r)
          \/ PayoutNotFound(r) \/ PayoutInsufficient(r) \/ PayoutInsert(r)
          \/ PayoutUpdate(r) \/ PayoutCommit(r) \/ PayoutCatch(r)

Spec == Init /\ [][Next]_vars

\* ------------------------------- the same handlers, bodies with null and ""
\* Number(null) and Number("") are 0, which Number.isFinite accepts
CoercedIdInputs == {Undef, Null, Text(""), Str, Num(1), Num(2)}
CoercedPriceInputs == {Undef, Null, Num(10000)}
CoercedPayoutInputs == {Null, Num(1000), Num(1500)}

\* the request together with agentId and price or amount as the body gave
\* them
Given(q, agentId, amount) ==
    q @@ [given |-> [agentId |-> agentId, amount |-> amount]]

SaleStartCoerced(r) ==
    /\ Arrives(r)
    /\ \E agentId \in CoercedIdInputs, salePrice \in CoercedPriceInputs :
          req' = [req EXCEPT ![r] =
                     Given(SaleRequest(r, agentId, salePrice),
                           agentId, salePrice)]
    /\ StoreUnchanged
    /\ UNCHANGED server

PayoutStartCoerced(r) ==
    /\ Arrives(r)
    /\ \E agentId \in CoercedIdInputs, amount \in CoercedPayoutInputs :
          req' = [req EXCEPT ![r] =
                     Given(PayoutRequest(r, agentId, amount), agentId, amount)]
    /\ StoreUnchanged
    /\ UNCHANGED server

InitCoerced ==
    /\ agents = <<NewAgent("A", "null", 10)>>
    /\ sales = {}
    /\ payouts = {}
    /\ req = [r \in Reqs |-> IdleReq]
    /\ server = [file |-> "part_003", env |-> Text("k9")]

NextCoerced ==
    \E r \in Reqs :
       \/ SaleStartCoerced(r) \/ SaleBegin(r) \/ SaleSelect(r)
       \/ SaleNotFound(r) \/ SaleInsert(r) \/ SaleUpdate(r) \/ SaleCommit(r)
       \/ SaleCatch(r)
       \/ PayoutStartCoerced(r) \/ PayoutBegin(r) \/ PayoutSelect(r)
       \/ PayoutNotFound(r) \/ PayoutInsufficient(r) \/ PayoutInsert(r)
       \/ PayoutUpdate(r) \/ PayoutCommit(r) \/ PayoutCatch(r)

SpecCoerced == InitCoerced /\ [][NextCoerced]_vars

\* ------------------------------------ the ROLLBACK of the catch block fails
\* try { await client.query("ROLLBACK") } catch (_) {}: the failure is
\* swallowed and the transaction stays as it was, with its lock and its
\* uncommitted writes; 500 is answered and the client is released
RollbackSwallowed(r) ==
    [Reject(r, 500, "Server error") EXCEPT
        !.txOpen = req[r].txOpen, !.holds = req[r].holds,
        !.aId = req[r].aId, !.wSale = req[r].wSale,
        !.wPayout = req[r].wPayout, !.wDelta = req[r].wDelta]

\* lines 232-243 when that ROLLBACK throws
SaleCatchSwallowed(r) ==
    /\ req[r].pc = "catch" /\ req[r].kind = "sale"
    /\ req' = [req EXCEPT ![r] = RollbackSwallowed(r)]
    /\ StoreUnchanged
    /\ UNCHANGED server

\* lines 297-308 when that ROLLBACK throws
PayoutCatchSwallowed(r) ==
    /\ req[r].pc = "catch" /\ req[r].kind = "payout"
    /\ req' = [req EXCEPT ![r] = RollbackSwallowed(r)]
    /\ StoreUnchanged
    /\ UNCHANGED server

\* part_003 with every statement able to fail, the ROLLBACK of catch too
NextRollback ==
    \/ CreateAgent
    \/ \E r \in Reqs :
          \/ SaleStart(r) \/ SaleBegin(r) \/ SaleSelect(r) \/ SaleNotFound(r)
          \/ SaleInsert(r) \/ SaleUpdate(r) \/ SaleCommit(r) \/ SaleCatch(r)
          \/ SaleCatchSwallowed(r)
          \/ PayoutStart(r) \/ PayoutBegin(r) \/ PayoutSelect(r)
          \/ PayoutNotFound(r) \/ PayoutInsufficient(r) \/ PayoutInsert(r)
          \/ PayoutUpdate(r) \/ PayoutCommit(r) \/ PayoutCatch(r)
          \/ PayoutCatchSwallowed(r)

SpecRollback == Init /\ [][NextRollback]_vars

\* --------------------------------------------- two agents, both in the table
InitTwoAgents ==
    /\ agents = <<NewAgent("A", "null", 10), NewAgent("B", "null", 10)>>
    /\ sales = {}
    /\ payouts = {}
    /\ req = [r \in Reqs |-> IdleReq]
    /\ server = [file |-> "part_003", env |-> Text("k9")]

NextTwoAgents ==
    \E r \in Reqs :
       \/ SaleStartCoerced(r) \/ SaleBegin(r) \/ SaleSelect(r)
       \/ SaleNotFound(r) \/ SaleInsert(r) \/ SaleUpdate(r) \/ SaleCommit(r)
       \/ SaleCatch(r)
       \/ PayoutStartCoerced(r) \/ PayoutBegin(r) \/ PayoutSelect(r)
       \/ PayoutNotFound(r) \/ PayoutInsufficient(r) \/ PayoutInsert(r)
       \/ PayoutUpdate(r) \/ PayoutCommit(r) \/ PayoutCatch(r)

SpecTwoAgents == InitTwoAgents /\ [][NextTwoAgents]_vars

\* =================================================== src/index.js (44-436)
\* the server whose balance is derived: no balance column, no transaction
NumIdxReq == 3
IdxReqs == 1..NumIdxReq
MaxIdxAgents == MaxAgents + 1

\* ids a request of index.js may carry: text, 0, the seeded agent, an id that
\* never exists
IdxAgentIdInputs == {Str, Num(0), Num(1), Num(MaxIdxAgents + 1)}
IdxPctInputs == {Undef, Str, Num(10), Num(150)}
IdxPayoutInputs == {Str, Num(0), Num(3000)}
CustomerInputs == {Undef, Num(1)}

\* !x of JavaScript on a number: NaN and 0 are falsy
Falsy(x) == ~isFinite(x) \/ x.val = 0

\* lines 131-137: initDb seeds one agent with 30 percent
InitIndex ==
    /\ agents = <<NewAgent("Boom", "0888885588", 30)>>
    /\ sales = {}
    /\ payouts = {}
    /\ req = [r \in IdxReqs |-> IdleReq]
    /\ server = [file |-> "index.js", env |-> Text("k9")]

\* a pool.query threw: catch, 500
IFail(r) == req' = [req EXCEPT ![r] = Reject(r, 500, "Server error")]

\* Number.isNaN(pct) || pct < 0 || pct > 100
BadPercent(pct) == ~isFinite(pct) \/ pct.val < 0 \/ pct.val > 100

\* lines 262-282: POST /api/agents
ICreateAgent ==
    /\ Len(agents) < MaxIdxAgents
    /\ \E name \in NameInputs, phone \in {NoText, "P"}, cp \in IdxPctInputs :
          LET pct == Number(IF cp.t = "undef" \/ (cp.t = "num" /\ cp.val = 0)
                            THEN Num(0) ELSE cp)
          IN  IF name = "" \/ phone = NoText \/ BadPercent(pct)
              THEN UNCHANGED agents
              ELSE agents' = Append(agents, NewAgent(name, phone, pct.val))
    /\ UNCHANGED <<sales, payouts, req>>
    /\ UNCHANGED server

\* lines 220-248: agentTotals(agentId) for one agent
agentTotals(a) ==
    LET earned == SumOf(SalesOf(a), "commission_amount")
        paid == SumOf(PayoutsOf(a), "amount")
    IN  [earned |-> earned, paid |-> paid, balance |-> earned - paid]

\* ------------------------------------------------ PUT /api/agents/:id
\* lines 287-294: read and validate the request
PutStart(r) ==
    /\ Arrives(r)
    /\ \E agentId \in IdxAgentIdInputs, name \in {NoText, "B"},
          phone \in {NoText}, cp \in {Undef, Num(20), Num(150)} :
          LET id == Number(agentId)
              pct == IF cp.t = "undef" THEN Undef ELSE Number(cp)
              q == [req[r] EXCEPT !.kind = "put", !.aId = id]
                      @@ [body |-> [name |-> name, phone |-> phone,
                                    pct |-> pct],
                          cur |-> NoRow]
          IN  req' = [req EXCEPT ![r] =
                 IF Falsy(id)
                 THEN [Reject(r, 400, "invalid id") EXCEPT !.kind = q.kind]
                 ELSE IF pct.t /= "undef" /\ BadPercent(pct)
                 THEN [Reject(r, 400, "commissionPercent must be 0-100")
                          EXCEPT !.kind = q.kind]
                 ELSE [q EXCEPT !.pc = "select"]]
    /\ StoreUnchanged
    /\ UNCHANGED server

\* lines 296-297: SELECT * FROM agents WHERE id=$1
PutSelect(r) ==
    /\ req[r].pc = "select" /\ req[r].kind = "put"
    /\ \/ /\ req[r].aId.val \notin AgentIds
          /\ req' = [req EXCEPT ![r] = Reject(r, 404, "agent not found")]
       \/ /\ req[r].aId.val \in AgentIds
          /\ req' = [req EXCEPT ![r].pc = "update",
                        ![r].cur = agents[req[r].aId.val]]
       \/ IFail(r)
    /\ StoreUnchanged
    /\ UNCHANGED server

\* lines 299-301: a field absent from the body keeps the value read
NextAgent(r) ==
    LET b == req[r].body
        cur == req[r].cur
    IN  [name |-> IF b.name /= NoText THEN b.name ELSE cur.name,
         phone |-> IF b.phone /= NoText THEN b.phone ELSE cur.phone,
         commission_percent |-> IF b.pct.t /= "undef" THEN b.pct.val
                                ELSE cur.commission_percent]

\* UPDATE agents SET name=$1, phone=$2, commission_percent=$3 WHERE id=$4
UpdatedAgents(r) ==
    [agents EXCEPT ![req[r].aId.val] =
        [@ EXCEPT !.name = NextAgent(r).name, !.phone = NextAgent(r).phone,
                  !.commission_percent = NextAgent(r).commission_percent]]

SalesRecomputed(r) ==
    {IF s.agent_id = req[r].aId.val
     THEN [s EXCEPT !.commission_percent = NextAgent(r).commission_percent,
                    !.commission_amount =
                        CommissionAmount(s.sale_price,
                                         NextAgent(r).commission_percent)]
     ELSE s : s \in sales}

\* the sales table after that UPDATE: it names only the agents table
SalesAfterAgentUpdate(r) == sales

\* lines 303-308: UPDATE agents, 200
PutUpdate(r) ==
    /\ req[r].pc = "update" /\ req[r].kind = "put"
    /\ \/ /\ agents' = UpdatedAgents(r)
          /\ sales' = SalesAfterAgentUpdate(r)
          /\ req' = [req EXCEPT ![r] = Accept(r)]
       \/ IFail(r) /\ UNCHANGED <<agents, sales>>
    /\ UNCHANGED payouts
    /\ UNCHANGED server

\* ------------------------------------------------ POST /api/sales (index.js)
\* lines 390-396: read and validate the request; the answer "customerId
\* required" is kept together with the agentId and salePrice it was given to
ISaleStart(r) ==
    /\ Arrives(r)
    /\ \E cId \in CustomerInputs, agentId \in IdxAgentIdInputs,
          salePrice \in PriceInputs :
          LET customerId == Number(cId)
              aId == Number(agentId)
              price == Number(salePrice)
              q == [req[r] EXCEPT !.kind = "isale", !.aId = aId, !.amt = price]
          IN  req' = [req EXCEPT ![r] =
                 IF Falsy(customerId)
                 THEN [Reject(r, 400, "customerId required")
                          EXCEPT !.kind = q.kind, !.aId = aId, !.amt = price]
                 ELSE IF Falsy(aId)
                 THEN [Reject(r, 400, "agentId required") EXCEPT !.kind = q.kind]
                 ELSE IF Falsy(price) \/ price.val <= 0
                 THEN [Reject(r, 400, "salePrice must be > 0")
                          EXCEPT !.kind = q.kind]
                 ELSE [q EXCEPT !.pc = "select"]]
    /\ StoreUnchanged
    /\ UNCHANGED server

\* lines 398-402: SELECT commission_percent, then the commission is computed
ISaleSelect(r) ==
    /\ req[r].pc = "select" /\ req[r].kind = "isale"
    /\ LET a == req[r].aId.val
       IN \/ /\ a \notin AgentIds
             /\ req' = [req EXCEPT ![r] = Reject(r, 404, "agent not found")]
          \/ /\ a \in AgentIds
             /\ req' = [req EXCEPT ![r].pc = "insert",
                           ![r].pct = PercentOf(a),
                           ![r].camt = CommissionAmount(req[r].amt.val, PercentOf(a))]
          \/ IFail(r)
    /\ StoreUnchanged
    /\ UNCHANGED server

\* the row of INSERT INTO sales(customer_id, agent_id, sale_price,
\* commission_percent, commission_amount)
ISaleRow(r, id) ==
    [id |-> id, agent_id |-> req[r].aId.val, sale_price |-> req[r].amt.val,
     commission_percent |-> req[r].pct, commission_amount |-> req[r].camt]

\* lines 404-416: INSERT INTO sales (its own transaction), 200
ISaleInsert(r) ==
    /\ req[r].pc = "insert" /\ req[r].kind = "isale"
    /\ \/ /\ sales' = sales \cup {ISaleRow(r, NewId(r))}
          /\ req' = [req EXCEPT ![r] = [Accept(r) EXCEPT !.rowId = NewId(r)]]
       \/ IFail(r) /\ UNCHANGED sales
    /\ UNCHANGED <<agents, payouts>>
    /\ UNCHANGED server

\* ---------------------------------------- POST /api/agents/:id/payouts
\* lines 318-323: read and validate the request
IPayoutStart(r) ==
    /\ Arrives(r)
    /\ \E agentId \in IdxAgentIdInputs, amount \in IdxPayoutInputs :
          LET aId == Number(agentId)
              amt == Number(amount)
              q == [req[r] EXCEPT !.kind = "ipayout", !.aId = aId, !.amt = amt]
          IN  req' = [req EXCEPT ![r] =
                 IF Falsy(aId)
                 THEN [Reject(r, 400, "invalid agentId") EXCEPT !.kind = q.kind]
                 ELSE IF Falsy(amt) \/ amt.val <= 0
                 THEN [Reject(r, 400, "amount must be > 0") EXCEPT !.kind = q.kind]
                 ELSE [q EXCEPT !.pc = "select"]]
    /\ StoreUnchanged
    /\ UNCHANGED server

\* lines 325-331: agentTotals, then the balance check on what it returned
IPayoutTotals(r) ==
    /\ req[r].pc = "select" /\ req[r].kind = "ipayout"
    /\ LET a == req[r].aId.val
       IN \/ /\ a \notin AgentIds
             /\ req' = [req EXCEPT ![r] = Reject(r, 404, "agent not found")]
          \/ /\ a \in AgentIds
             /\ req' = [req EXCEPT ![r] =
                   IF req[r].amt.val > agentTotals(a).balance
                   THEN Reject(r, 400, "amount exceeds balance")
                   ELSE [req[r] EXCEPT !.pc = "insert"]]
          \/ IFail(r)
    /\ StoreUnchanged
    /\ UNCHANGED server

\* the row of INSERT INTO payouts(agent_id, amount, note)
IPayoutRow(r, id) ==
    [id |-> id, agent_id |-> req[r].aId.val, amount |-> req[r].amt.val]

\* lines 333-338: INSERT INTO payouts (its own transaction), 200
IPayoutInsert(r) ==
    /\ req[r].pc = "insert" /\ req[r].kind = "ipayout"
    /\ \/ /\ payouts' = payouts \cup {IPayoutRow(r, NewId(r))}
          /\ req' = [req EXCEPT ![r] = [Accept(r) EXCEPT !.rowId = NewId(r)]]
       \/ IFail(r) /\ UNCHANGED payouts
    /\ UNCHANGED <<agents, sales>>
    /\ UNCHANGED server

\* the agent-profile and sale endpoints of index.js alone (the payout
\* endpoint writes the payouts table only)
InitRates ==
    /\ agents = <<NewAgent("Boom", "0888885588", 30)>>
    /\ sales = {}
    /\ payouts = {}
    /\ req = [r \in Reqs |-> IdleReq]
    /\ server = [file |-> "index.js", env |-> Text("k9")]

NextRates ==
    \/ ICreateAgent
    \/ \E r \in Reqs :
          \/ PutStart(r) \/ PutSelect(r) \/ PutUpdate(r)
          \/ ISaleStart(r) \/ ISaleSelect(r) \/ ISaleInsert(r)

SpecRates == InitRates /\ [][NextRates]_vars

NextIndex ==
    \/ ICreateAgent
    \/ \E r \in IdxReqs :
          \/ PutStart(r) \/ PutSelect(r) \/ PutUpdate(r)
          \/ ISaleStart(r) \/ ISaleSelect(r) \/ ISaleInsert(r)
          \/ IPayoutStart(r) \/ IPayoutTotals(r) \/ IPayoutInsert(r)

SpecIndex == InitIndex /\ [][NextIndex]_vars

\* ============================== GET /api/agents/:id/report (part_003)
\* req.params.id: text that Number() turns into NaN, the seeded agent, an id
\* that does not exist
ReportIdInputs == {Str, Num(1), Num(MissingAgent)}

\* a pool.query of the report threw: catch, 500; there is no transaction
ReportFail(r) == req' = [req EXCEPT ![r] = Reject(r, 500, "Server error")]

\* lines 98-101: the id is validated, the first SELECT is sent
ReportStart(r) ==
    /\ Arrives(r)
    /\ \E id \in ReportIdInputs :
          LET agentId == Number(id)
          IN  req' = [req EXCEPT ![r] =
                 IF ~isFinite(agentId)
                 THEN [Reject(r, 400, "invalid agent id")
                          EXCEPT !.kind = "report"]
                 ELSE [req[r] EXCEPT !.kind = "report", !.aId = agentId,
                                     !.pc = "agent"]
                         @@ [report |-> NoReport, cur |-> NoRow]]
    /\ StoreUnchanged
    /\ UNCHANGED server

\* lines 103-111: SELECT ... balance FROM agents WHERE id = $1, on the pool:
\* its own statement, no transaction, no lock
ReportAgent(r) ==
    /\ req[r].pc = "agent" /\ req[r].kind = "report"
    /\ \/ req' = [req EXCEPT ![r] =
                IF req[r].aId.val \in AgentIds
                THEN [req[r] EXCEPT !.cur = agents[req[r].aId.val],
                                    !.pc = "totals"]
                ELSE Reject(r, 404, "agent not found")]
       \/ ReportFail(r)
    /\ StoreUnchanged
    /\ UNCHANGED server

\* lines 113-120: SELECT COALESCE(SUM(commission_amount),0) FROM sales
ReportTotals(r) ==
    /\ req[r].pc = "totals" /\ req[r].kind = "report"
    /\ \/ req' = [req EXCEPT ![r].pc = "payoutTotals",
                     ![r].report.commissionTotal =
                        SumOf(SalesOf(req[r].aId.val), "commission_amount")]
       \/ ReportFail(r)
    /\ StoreUnchanged
    /\ UNCHANGED server

\* lines 122-127: SELECT COALESCE(SUM(amount),0) FROM payouts
ReportPayoutTotals(r) ==
    /\ req[r].pc = "payoutTotals" /\ req[r].kind = "report"
    /\ \/ req' = [req EXCEPT ![r].pc = "sales",
                     ![r].report.payoutsTotal =
                        SumOf(PayoutsOf(req[r].aId.val), "amount")]
       \/ ReportFail(r)
    /\ StoreUnchanged
    /\ UNCHANGED server

\* lines 129-137: the sales of the agent
ReportSales(r) ==
    /\ req[r].pc = "sales" /\ req[r].kind = "report"
    /\ \/ req' = [req EXCEPT ![r].pc = "payouts",
                     ![r].report.sales = SalesOf(req[r].aId.val)]
       \/ ReportFail(r)
    /\ StoreUnchanged
    /\ UNCHANGED server

\* lines 139-158: the payouts of the agent, then res.json with everything
\* that was read
ReportPayouts(r) ==
    /\ req[r].pc = "payouts" /\ req[r].kind = "report"
    /\ \/ req' = [req EXCEPT ![r].pc = "done", ![r].status = 200,
                     ![r].report.payouts = PayoutsOf(req[r].aId.val)]
       \/ ReportFail(r)
    /\ StoreUnchanged
    /\ UNCHANGED server

\* one agent with an empty ledger
InitReport ==
    /\ agents = <<NewAgent("A", "null", 10)>>
    /\ sales = {}
    /\ payouts = {}
    /\ req = [r \in Reqs |-> IdleReq]
    /\ server = [file |-> "part_003", env |-> Text("k9")]

\* the report next to the sales and payouts of part_003
NextReport ==
    \E r \in Reqs :
       \/ SaleStart(r) \/ SaleBegin(r) \/ SaleSelect(r) \/ SaleNotFound(r)
       \/ SaleInsert(r) \/ SaleUpdate(r) \/ SaleCommit(r) \/ SaleCatch(r)
       \/ ReportStart(r) \/ ReportAgent(r) \/ ReportTotals(r)
       \/ ReportPayoutTotals(r) \/ ReportSales(r) \/ ReportPayouts(r)

SpecReport == InitReport /\ [][NextReport]_vars

\* ====================================================== authentication
\* String.prototype.startsWith
StartsWith(s, p) == Len(s) >= Len(p) /\ SubSeq(s, 1, Len(p)) = p

\* s.replace(p, "") for an s that starts with p
DropPrefix(s, p) == SubSeq(s, Len(p) + 1, Len(s))

RECURSIVE TrimStart(_)
TrimStart(s) == IF s /= "" /\ Head(s) = " " THEN TrimStart(Tail(s)) ELSE s

RECURSIVE TrimEnd(_)
TrimEnd(s) ==
    IF s /= "" /\ SubSeq(s, Len(s), Len(s)) = " "
    THEN TrimEnd(SubSeq(s, 1, Len(s) - 1)) ELSE s

\* String.prototype.trim
Trim(s) == TrimEnd(TrimStart(s))

\* the letters of API_KEY in upper case: the i flag of the regular expression
UpperChar(c) ==
    CASE c = "a" -> "A" [] c = "p" -> "P" [] c = "i" -> "I"
      [] c = "k" -> "K" [] c = "e" -> "E" [] c = "y" -> "Y" [] OTHER -> c

RECURSIVE Upper(_)
Upper(s) == IF s = "" THEN "" ELSE UpperChar(Head(s)) \o Upper(Tail(s))

\* part_003 lines 11-14: "MY_KEY" and "API_KEY=MY_KEY" are both accepted
RAW_API_KEY == IF Truthy(server.env) THEN server.env.val ELSE ""
API_KEY ==
    IF StartsWith(RAW_API_KEY, "API_KEY=")
    THEN DropPrefix(RAW_API_KEY, "API_KEY=") ELSE RAW_API_KEY

\* index.js lines 52-56
\* .replace(/^API_KEY\s*=\s*/i, "")
StripKeyName(raw) ==
    IF Len(raw) >= 7 /\ Upper(SubSeq(raw, 1, 7)) = "API_KEY"
    THEN LET rest == TrimStart(SubSeq(raw, 8, Len(raw)))
         IN  IF rest /= "" /\ Head(rest) = "="
             THEN TrimStart(Tail(rest)) ELSE raw
    ELSE raw

\* .replace(/^"|"$/g, "")
Unquote(s) ==
    LET t == IF s /= "" /\ Head(s) = "\"" THEN Tail(s) ELSE s
    IN  IF t /= "" /\ SubSeq(t, Len(t), Len(t)) = "\""
        THEN SubSeq(t, 1, Len(t) - 1) ELSE t

IAPI_KEY == Unquote(Trim(StripKeyName(RAW_API_KEY)))

\* a comparison that accepts every prefix of the key
MismatchPrefix(token, key) == ~StartsWith(key, token)

\* token !== API_KEY
Mismatch(token, key) == token /= key

\* part_003 lines 17-36: auth, TRUE when next() is called
auth(h) ==
    LET apiKeyHeader == h.xApiKey
        bearerHeader == h.authorization
        token == IF Truthy(bearerHeader)
                    /\ StartsWith(bearerHeader.val, "Bearer ")
                 THEN Trim(DropPrefix(bearerHeader.val, "Bearer "))
                 ELSE IF Truthy(apiKeyHeader) THEN apiKeyHeader.val ELSE ""
    IN  ~(API_KEY = "" \/ token = "" \/ Mismatch(token, API_KEY))

\* index.js lines 58-74: auth, TRUE when next() is called
Iauth(h) ==
    LET apiKeyHeader == h.xApiKey
        bearerHeader == h.authorization
        token == IF Truthy(bearerHeader)
                    /\ StartsWith(bearerHeader.val, "Bearer ")
                 THEN Trim(DropPrefix(bearerHeader.val, "Bearer "))
                 ELSE IF Truthy(apiKeyHeader) THEN apiKeyHeader.val ELSE ""
    IN  ~(Trim(token) = "" \/ Mismatch(Trim(token), IAPI_KEY))

\* what the environment may hold under API_KEY
EnvInputs ==
    {Undef, Text(""), Text("k9"), Text("API_KEY=k9"), Text("api_key = \"k9\"")}

\* header values as node hands them over, without outer white space
XApiKeyInputs == {Undef, Text("k9"), Text("k9x")}
AuthorizationInputs ==
    {Undef, Text("Bearer k9"), Text("Bearer  k9"), Text("Bearer k"),
     Text("Basic k9")}

\* bodies of POST /api/agents: one that fails validation, one that passes
AgentBodyInputs ==
    {NoBody, [name |-> "A", phone |-> "P", pct |-> Num(10)]}

InitAuth ==
    /\ agents = <<>>
    /\ sales = {}
    /\ payouts = {}
    /\ req = [r \in Reqs |-> IdleReq]
    /\ \E file \in {"part_003", "index.js"}, env \in EnvInputs :
          server = [file |-> file, env |-> env]

\* a POST /api/agents as express hands it to the middleware chain: req.headers
\* and req.body, beside the fields every request of the model has
HttpReq(h, b) ==
    [pc |-> "received", kind |-> "agent", aId |-> NaN, amt |-> NaN,
     status |-> 0, error |-> "", txOpen |-> FALSE, holds |-> FALSE,
     pct |-> 0, camt |-> 0,
     wSale |-> {}, wPayout |-> {}, wDelta |-> 0, rowId |-> 0,
     headers |-> h, body |-> b]

\* express.json() has read the body of a POST /api/agents: the middleware
\* chain of the route runs next
Receive(r) ==
    /\ Arrives(r)
    /\ \E x \in XApiKeyInputs, a \in AuthorizationInputs,
          b \in AgentBodyInputs :
          req' = [req EXCEPT ![r] =
                     HttpReq([xApiKey |-> x, authorization |-> a], b)]
    /\ StoreUnchanged
    /\ UNCHANGED server

\* the answer of a request, with the headers it came with
Answer(r, code, msg) ==
    [req[r] EXCEPT !.pc = "done", !.status = code, !.error = msg,
                   !.body = NoBody]

\* part_003 lines 58-79: app.post("/api/agents", auth, handler)
PostAgent(r) ==
    /\ req[r].pc = "received" /\ server.file = "part_003"
    /\ IF ~auth(req[r].headers)
       THEN /\ req' = [req EXCEPT ![r] = Answer(r, 401, "Unauthorized")]
            /\ StoreUnchanged
       ELSE IF req[r].body.name = NoText \/ req[r].body.name = ""
       THEN /\ req' = [req EXCEPT ![r] = Answer(r, 400, "name is required")]
            /\ StoreUnchanged
       ELSE \/ /\ agents' = Append(agents,
                     NewAgent(req[r].body.name, OrNull(req[r].body.phone),
                              Coalesce(req[r].body.pct, Num(0)).val))
               /\ req' = [req EXCEPT ![r] =
                             [Answer(r, 200, "") EXCEPT
                                 !.rowId = Len(agents) + 1]]
               /\ UNCHANGED <<sales, payouts>>
            \/ /\ req' = [req EXCEPT ![r] = Answer(r, 500, "Server error")]
               /\ StoreUnchanged
    /\ UNCHANGED server

\* index.js lines 262-282: app.post("/api/agents", auth, handler)
IPostAgent(r) ==
    /\ req[r].pc = "received" /\ server.file = "index.js"
    /\ LET b == req[r].body
           pct == Number(IF b.pct.t = "undef"
                            \/ (b.pct.t = "num" /\ b.pct.val = 0)
                         THEN Num(0) ELSE b.pct)
       IN  IF ~Iauth(req[r].headers)
           THEN /\ req' = [req EXCEPT ![r] = Answer(r, 401, "Unauthorized")]
                /\ StoreUnchanged
           ELSE IF b.name = NoText \/ b.name = ""
           THEN /\ req' = [req EXCEPT ![r] = Answer(r, 400, "name required")]
                /\ StoreUnchanged
           ELSE IF b.phone = NoText \/ b.phone = ""
           THEN /\ req' = [req EXCEPT ![r] = Answer(r, 400, "phone required")]
                /\ StoreUnchanged
           ELSE IF BadPercent(pct)
           THEN /\ req' = [req EXCEPT ![r] =
                              Answer(r, 400, "commissionPercent must be 0-100")]
                /\ StoreUnchanged
           ELSE \/ /\ agents' = Append(agents,
                         NewAgent(b.name, b.phone, pct.val))
                   /\ req' = [req EXCEPT ![r] =
                                 [Answer(r, 200, "") EXCEPT
                                     !.rowId = Len(agents) + 1]]
                   /\ UNCHANGED <<sales, payouts>>
                \/ /\ req' = [req EXCEPT ![r] = Answer(r, 500, "Server error")]
                   /\ StoreUnchanged
    /\ UNCHANGED server

NextAuth == \E r \in Reqs : Receive(r) \/ PostAgent(r) \/ IPostAgent(r)

SpecAuth == InitAuth /\ [][NextAuth]_vars

\* ===================================== pool.connect() fails (part_003)
\* const client = await pool.connect() stands before the try block: when it
\* rejects, the promise of the async handler rejects and no line of the
\* handler runs. Express 4 drops the rejection and nothing is sent; Express 5
\* hands it to its error handler, which answers 500. The repository pins no
\* version.
Unhandled(r, kind) ==
    {[IdleReq EXCEPT !.pc = "done", !.kind = kind],
     [IdleReq EXCEPT !.pc = "done", !.kind = kind, !.status = 500,
                     !.error = "Internal Server Error"]}

\* line 168 when pool.connect() rejects
SaleConnectFails(r) ==
    /\ Arrives(r)
    /\ \E q \in Unhandled(r, "sale") : req' = [req EXCEPT ![r] = q]
    /\ StoreUnchanged
    /\ UNCHANGED server

\* line 248 when pool.connect() rejects
PayoutConnectFails(r) ==
    /\ Arrives(r)
    /\ \E q \in Unhandled(r, "payout") : req' = [req EXCEPT ![r] = q]
    /\ StoreUnchanged
    /\ UNCHANGED server

\* part_003 with every await able to fail: pool.connect(), the statements,
\* the ROLLBACK of catch
NextRespond ==
    \/ NextRollback
    \/ \E r \in Reqs : SaleConnectFails(r) \/ PayoutConnectFails(r)

SpecRespond == Init /\ [][NextRespond]_vars

\* ================================= fair scheduling, a store that answers
\* the next step of a request that has arrived: the statement it awaits is
\* answered (with a result or an error) and the callback runs
Proceed(r) ==
    \/ SaleBegin(r) \/ SaleSelect(r) \/ SaleNotFound(r) \/ SaleInsert(r)
    \/ SaleUpdate(r) \/ SaleCommit(r) \/ SaleCatch(r)
    \/ PayoutBegin(r) \/ PayoutSelect(r) \/ PayoutNotFound(r)
    \/ PayoutInsufficient(r) \/ PayoutInsert(r) \/ PayoutUpdate(r)
    \/ PayoutCommit(r) \/ PayoutCatch(r)

\* the statement r awaits is answered with its result and not with an error
\* (the ROLLBACK of a catch block included)
Answered(r) == Proceed(r) /\ req'[r].pc /= "catch"

\* the event loop runs every callback that is ready and the store answers
\* every statement it can carry out: a SELECT ... FOR UPDATE once the row is
\* free. A statement may fail, nothing makes it fail.
Fairness == \A r \in Reqs : WF_vars(Answered(r))

\* bodies that pass validation: the agent that exists or one that does not,
\* a payout the balance may or may not cover
FairIdInputs == {Num(1), Num(MissingAgent)}
FairPriceInputs == {Num(10000)}
FairPayoutInputs == {Num(1000), Num(1500)}

\* part_003 lines 168-185 on those bodies
SaleStartFair(r) ==
    /\ Arrives(r)
    /\ \E agentId \in FairIdInputs, salePrice \in FairPriceInputs :
          req' = [req EXCEPT ![r] = SaleRequest(r, agentId, salePrice)]
    /\ StoreUnchanged
    /\ UNCHANGED server

\* part_003 lines 248-260 on those bodies
PayoutStartFair(r) ==
    /\ Arrives(r)
    /\ \E agentId \in FairIdInputs, amount \in FairPayoutInputs :
          req' = [req EXCEPT ![r] = PayoutRequest(r, agentId, amount)]
    /\ StoreUnchanged
    /\ UNCHANGED server

\* sales and payouts of part_003 on one agent at 10 percent
NextFair ==
    \E r \in Reqs : SaleStartFair(r) \/ PayoutStartFair(r) \/ Proceed(r)

SpecFair == InitCoerced /\ [][NextFair]_vars /\ Fairness

\* =========================== the ledger with its timestamps (part_003)
\* created_at TIMESTAMP DEFAULT NOW() (schema.sql lines 38 and 48) and the
\* INSERTs of part_003 name no created_at: a row gets NOW(), which PostgreSQL
\* defines as the start time of the current transaction, the time of its
\* BEGIN. The clock of the store is server.now; a request keeps the start
\* time of its transaction in startedAt. applied is not a column: it numbers
\* the rows in the order of their COMMIT, 0 while uncommitted.
NumHistReq == 3
MaxNow == 2
HistReqs == 1..NumHistReq

\* LIMIT 200
HistoryLimit == 200

\* time passes at the store
Tick ==
    /\ server.now < MaxNow
    /\ server' = [server EXCEPT !.now = @ + 1]
    /\ UNCHANGED <<agents, sales, payouts, req>>

\* BEGIN: the transaction starts at the store's clock
BeginAt(r) ==
    /\ req[r].pc = "begin"
    /\ \/ req' = [req EXCEPT ![r] =
                    [req[r] EXCEPT !.pc = "select", !.txOpen = TRUE]
                       @@ [startedAt |-> server.now]]
       \/ Fail(r)
    /\ StoreUnchanged
    /\ UNCHANGED server

\* part_003 line 185: BEGIN
SaleBeginAt(r) == req[r].kind = "sale" /\ BeginAt(r)

\* part_003 line 260: BEGIN
PayoutBeginAt(r) == req[r].kind = "payout" /\ BeginAt(r)

\* created_at = NOW() of the inserting transaction
Stamped(row, r) == row @@ [created_at |-> req[r].startedAt, applied |-> 0]

\* lines 204-216: INSERT INTO sales, created_at by default
SaleInsertAt(r) ==
    /\ req[r].pc = "insert" /\ req[r].kind = "sale"
    /\ \/ req' = [req EXCEPT ![r].pc = "update", ![r].rowId = NewId(r),
                     ![r].wSale = {Stamped(SaleRow(r, NewId(r)), r)}]
       \/ Fail(r)
    /\ StoreUnchanged
    /\ UNCHANGED server

\* lines 281-286: INSERT INTO payouts, created_at by default
PayoutInsertAt(r) ==
    /\ req[r].pc = "insert" /\ req[r].kind = "payout"
    /\ \/ req' = [req EXCEPT ![r].pc = "update", ![r].rowId = NewId(r),
                     ![r].wPayout = {Stamped(PayoutRow(r, NewId(r)), r)}]
       \/ Fail(r)
    /\ StoreUnchanged
    /\ UNCHANGED server

\* the rows of a transaction as its COMMIT makes them visible, numbered
\* after the rows committed before
Applied(rows) ==
    {[w EXCEPT !.applied = Cardinality(sales) + Cardinality(payouts) + 1] :
        w \in rows}

\* lines 225-231 and 295-296: COMMIT, 200
CommitAt(r) ==
    /\ req[r].pc = "commit" /\ req[r].kind \in {"sale", "payout"}
    /\ \/ /\ sales' = sales \cup Applied(req[r].wSale)
          /\ payouts' = payouts \cup Applied(req[r].wPayout)
          /\ agents' = CommitAgents(r)
          /\ req' = [req EXCEPT ![r] = Accept(r)]
       \/ Fail(r) /\ StoreUnchanged
    /\ UNCHANGED server

\* ORDER BY created_at DESC LIMIT 200: every list of the rows in which
\* created_at never rises; rows of equal created_at come in any order
OrderByCreatedAtDesc(rows) ==
    LET n == Cardinality(rows)
        all == {h \in [1..n -> rows] :
                   /\ \A i, j \in 1..n : i /= j => h[i] /= h[j]
                   /\ \A i, j \in 1..n :
                         i < j => h[i].created_at >= h[j].created_at}
    IN  {SubSeq(h, 1, IF n < HistoryLimit THEN n ELSE HistoryLimit) :
            h \in all}

\* lines 129-137: the sales of the agent, most recent created_at first
ReportSalesOrdered(r) ==
    /\ req[r].pc = "sales" /\ req[r].kind = "report"
    /\ \/ \E h \in OrderByCreatedAtDesc(SalesOf(req[r].aId.val)) :
             req' = [req EXCEPT ![r].pc = "payouts", ![r].report.sales = h]
       \/ ReportFail(r)
    /\ StoreUnchanged
    /\ UNCHANGED server

\* lines 139-158: the payouts of the agent, most recent created_at first,
\* then res.json with everything that was read
ReportPayoutsOrdered(r) ==
    /\ req[r].pc = "payouts" /\ req[r].kind = "report"
    /\ \/ \E h \in OrderByCreatedAtDesc(PayoutsOf(req[r].aId.val)) :
             req' = [req EXCEPT ![r].pc = "done", ![r].status = 200,
                                ![r].report.payouts = h]
       \/ ReportFail(r)
    /\ StoreUnchanged
    /\ UNCHANGED server

\* one agent at 10 percent, an empty ledger, the clock at 1
InitHistory ==
    /\ agents = <<NewAgent("A", "null", 10)>>
    /\ sales = {}
    /\ payouts = {}
    /\ req = [r \in HistReqs |-> IdleReq]
    /\ server = [file |-> "part_003", env |-> Text("k9"), now |-> 1]

NextHistory ==
    \/ Tick
    \/ \E r \in HistReqs :
          \/ SaleStart(r) \/ SaleBeginAt(r) \/ SaleSelect(r)
          \/ SaleNotFound(r) \/ SaleInsertAt(r) \/ SaleUpdate(r)
          \/ SaleCatch(r)
          \/ PayoutStart(r) \/ PayoutBeginAt(r) \/ PayoutSelect(r)
          \/ PayoutNotFound(r) \/ PayoutInsufficient(r)
          \/ PayoutInsertAt(r) \/ PayoutUpdate(r) \/ PayoutCatch(r)
          \/ CommitAt(r)
          \/ ReportStart(r) \/ ReportAgent(r) \/ ReportTotals(r)
          \/ ReportPayoutTotals(r) \/ ReportSalesOrdered(r)
          \/ ReportPayoutsOrdered(r)

SpecHistory == InitHistory /\ [][NextHistory]_vars

\* ======================================== the arithmetic of the commission
\* A JavaScript number is an IEEE-754 binary64. A positive one is kept as its
\* significand of Precision bits, most significant bit first, and the exponent
\* of its last bit; every operation rounds the exact result to the nearest
\* such number, ties to even. The exact results are computed on limbs of 16
\* bits, most significant first.
Precision == 53
Radix == 2 ^ 16
DblZero == [m |-> <<>>, e |-> 0]

\* a natural number below 2^31 as limbs
LimbsOf(n) == <<n \div Radix, n % Radix>>

\* the 16 bits of a limb, and the bits of a sequence of limbs
LimbBits(v) == [i \in 1..16 |-> (v \div 2 ^ (16 - i)) % 2]
BitsOfLimbs(limbs) ==
    [i \in 1..(16 * Len(limbs)) |->
        LimbBits(limbs[((i - 1) \div 16) + 1])[((i - 1) % 16) + 1]]

\* the value of up to 16 bits, and the limbs of a sequence of bits
RECURSIVE BitsValue(_)
BitsValue(bits) ==
    IF bits = <<>> THEN 0
    ELSE (2 * BitsValue(SubSeq(bits, 1, Len(bits) - 1))) + bits[Len(bits)]
LimbsOfBits(bits) ==
    LET pad == (16 - (Len(bits) % 16)) % 16
        b == IF pad = 0 THEN bits ELSE [i \in 1..pad |-> 0] \o bits
    IN  [j \in 1..(Len(b) \div 16) |->
            BitsValue(SubSeq(b, (16 * (j - 1)) + 1, 16 * j))]

\* limbs * c + carry for a small natural c
RECURSIVE MulLimbs(_, _, _)
MulLimbs(limbs, c, carry) ==
    IF limbs = <<>> THEN <<carry>>
    ELSE LET t == (limbs[Len(limbs)] * c) + carry
         IN  Append(MulLimbs(SubSeq(limbs, 1, Len(limbs) - 1), c, t \div Radix),
                    t % Radix)

\* long division of limbs by a small q: the quotient's limbs and the remainder
RECURSIVE DivLimbs(_, _)
DivLimbs(limbs, q) ==
    IF limbs = <<>> THEN [quo |-> <<>>, rem |-> 0]
    ELSE LET h == DivLimbs(SubSeq(limbs, 1, Len(limbs) - 1), q)
             t == (h.rem * Radix) + limbs[Len(limbs)]
         IN  [quo |-> Append(h.quo, t \div q), rem |-> t % q]

\* a sequence without its leading zeros
Strip(s) ==
    IF \A i \in DOMAIN s : s[i] = 0 THEN <<>>
    ELSE LET k == CHOOSE i \in DOMAIN s :
                     s[i] /= 0 /\ \A j \in 1..(i - 1) : s[j] = 0
         IN  SubSeq(s, k, Len(s))

\* the division carried on behind the binary point until five limbs are
\* there: the significand, a guard bit and more
RECURSIVE Extend(_, _, _, _)
Extend(sig, rem, q, e) ==
    IF Len(sig) >= 5 THEN [sig |-> sig, rem |-> rem, e |-> e]
    ELSE LET t == rem * Radix
         IN  Extend(IF sig = <<>> /\ t \div q = 0 THEN sig
                    ELSE Append(sig, t \div q),
                    t % q, q, e - 16)

\* bits + 1
Inc(bits) ==
    IF \A i \in DOMAIN bits : bits[i] = 1
    THEN <<1>> \o [i \in DOMAIN bits |-> 0]
    ELSE LET k == CHOOSE i \in DOMAIN bits :
                     bits[i] = 0 /\ \A j \in (i + 1)..Len(bits) : bits[j] = 1
         IN  [i \in DOMAIN bits |->
                IF i < k THEN bits[i] ELSE IF i = k THEN 1 ELSE 0]

HasOne(bits) == \E i \in DOMAIN bits : bits[i] = 1

\* round to nearest, ties to even
RoundNearestEven(keep, guard, sticky) ==
    IF guard = 1 /\ (sticky \/ keep[Len(keep)] = 1) THEN Inc(keep) ELSE keep

\* the binary64 nearest to limbs * 2^e / q
RoundDiv(limbs, q, e) ==
    LET d == DivLimbs(limbs, q)
    IN  IF Strip(d.quo) = <<>> /\ d.rem = 0 THEN DblZero
        ELSE LET x == Extend(Strip(d.quo), d.rem, q, e)
                 bits == Strip(BitsOfLimbs(x.sig))
                 keep == SubSeq(bits, 1, Precision)
                 rest == SubSeq(bits, Precision + 1, Len(bits))
                 m == RoundNearestEven(keep, rest[1],
                                       x.rem /= 0 \/ HasOne(Tail(rest)))
                 e0 == x.e + Len(rest)
             IN  IF Len(m) > Precision
                 THEN [m |-> SubSeq(m, 1, Precision), e |-> e0 + 1]
                 ELSE [m |-> m, e |-> e0]

\* Number(rawPrice) of a decimal literal with two decimals, given in hundredths
NumberOfCents(c) == RoundDiv(LimbsOf(c), 100, 0)

\* x * n and x / n for a whole number n
DblTimes(x, n) ==
    IF x = DblZero THEN DblZero
    ELSE RoundDiv(MulLimbs(LimbsOfBits(x.m), n, 0), 1, x.e)
DblOver(x, n) ==
    IF x = DblZero THEN DblZero ELSE RoundDiv(LimbsOfBits(x.m), n, x.e)

\* const commissionAmount = (price * commissionPercent) / 100
jsCommissionAmount(price, pct) == DblOver(DblTimes(price, pct), 100)

\* the number that prints as the decimal cents * pct / 10000: what exact
\* decimal arithmetic stores
DecimalCommission(cents, pct) == RoundDiv(LimbsOf(cents * pct), 10000, 0)

\* prices in hundredths and whole rates a sale may meet
NumPriceInputs == {7, 110, 250, 1999, 3333, 4999, 10000, 20000}
NumPctInputs == {0, 1, 10, 15, 30, 33, 50, 100}
CommissionReqs == {1}

\* a sale of part_003 that has passed validation and BEGIN, for an agent
\* whose rate is within 0..100
InitCommission ==
    /\ \E pct \in NumPctInputs : agents = <<NewAgent("A", "null", pct)>>
    /\ sales = {}
    /\ payouts = {}
    /\ \E cents \in NumPriceInputs :
          req = [r \in CommissionReqs |->
                    [IdleReq EXCEPT !.kind = "sale", !.pc = "select",
                                    !.aId = Num(1), !.amt = Num(cents),
                                    !.txOpen = TRUE]]
    /\ server = [file |-> "part_003", env |-> Text("k9")]

\* lines 187-202 with the store answering: the rate is read under the lock
\* and the commission is computed in binary64
ComputeCommission(r) ==
    /\ req[r].pc = "select" /\ req[r].kind = "sale"
    /\ req[r].aId.val \in AgentIds
    /\ req' = [req EXCEPT ![r].pc = "insert", ![r].holds = TRUE,
                  ![r].pct = PercentOf(req[r].aId.val),
                  ![r].camt = jsCommissionAmount(NumberOfCents(req[r].amt.val),
                                                 PercentOf(req[r].aId.val))]
    /\ StoreUnchanged
    /\ UNCHANGED server

NextCommission == \E r \in CommissionReqs : ComputeCommission(r)

SpecCommission == InitCommission /\ [][NextCommission]_vars

\* ================================================================ claims
Store == <<agents, sales, payouts>>

\* the rows a request inserted that are visible in the committed tables
RowsOf(r) == {s \in sales : s.id = r} \cup {p \in payouts : p.id = r}

RECURSIVE SumReq(_, _)
SumReq(rs, f) ==
    IF rs = {} THEN 0
    ELSE LET x == CHOOSE y \in rs : TRUE
         IN  (IF f = "camt" THEN req[x].camt ELSE req[x].amt.val)
             + SumReq(rs \ {x}, f)

\* the requests answered 200 for agent a
OkSales(a) ==
    {r \in DOMAIN req : req[r].kind = "sale" /\ req[r].status = 200
                        /\ req[r].aId.val = a}
OkPayouts(a) ==
    {r \in DOMAIN req : req[r].kind = "payout" /\ req[r].status = 200
                        /\ req[r].aId.val = a}

\* C1: in every committed state each agent's stored balance equals the sum of
\* commission_amount over its sale rows minus the sum of amount over its
\* payout rows.
C1_BalanceEqualsLedger ==
    \A a \in AgentIds : agents[a].balance = LedgerBalance(a)

\* an agent with a committed sale and a committed payout
C1_Witness ==
    \E a \in AgentIds : SalesOf(a) /= {} /\ PayoutsOf(a) /= {}

\* C2: every agent's balance is >= 0 in every reachable committed state.
C2_BalanceNonNegative ==
    \A a \in AgentIds : agents[a].balance >= 0

\* C3: the sales answered 200 for an agent are exactly its sale rows, and the
\* balance is the sum of the commissions those answers returned minus the
\* accepted payouts: no credit of concurrent sales is lost.
C3_NoLostUpdate ==
    \A a \in AgentIds :
       /\ Cardinality(SalesOf(a)) = Cardinality(OkSales(a))
       /\ {s.id : s \in SalesOf(a)} = {req[r].rowId : r \in OkSales(a)}
       /\ agents[a].balance =
             SumReq(OkSales(a), "camt") - SumReq(OkPayouts(a), "amt")

\* two sales of 100.00 at 10 percent answered 200 for one agent: balance 20.00
C3_Witness ==
    \E a \in AgentIds :
       /\ Cardinality(OkSales(a)) = 2
       /\ \A r \in OkSales(a) : req[r].camt = 1000
       /\ agents[a].balance = 2000

\* C4: the accepted payouts of an agent never sum to more than the
\* commission it earned (a payout is approved against the current balance).
C4_PayoutsWithinEarned ==
    \A a \in AgentIds : agentTotals(a).paid <= agentTotals(a).earned

\* a request is between its locked read of the agent row and its COMMIT or
\* ROLLBACK
InCritical(r) ==
    \/ req[r].pc \in {"insert", "update", "commit", "rollback400"}
    \/ req[r].pc = "catch" /\ req[r].holds

\* C5: at any moment at most one request per agent is between its locked read
\* of the agent row and its COMMIT or ROLLBACK.
C5_MutualExclusion ==
    \A r1, r2 \in Reqs :
       (r1 /= r2 /\ InCritical(r1) /\ InCritical(r2))
          => req[r1].aId.val /= req[r2].aId.val

\* one request holds the row while another waits at its SELECT ... FOR UPDATE
C5_Witness ==
    \E r1, r2 \in Reqs :
       /\ r1 /= r2
       /\ InCritical(r1)
       /\ req[r2].pc = "select"
       /\ req[r2].aId.val = req[r1].aId.val

\* C6: no step changes or removes a sale row, whatever update of the agent's
\* commission_percent it makes; a sale reads the agent's rate as it is at that
\* moment and the row it inserts carries that rate and the commission
\* computed from it.
C6_SnapshotKept ==
    [][/\ \A s \in sales : s \in sales'
       /\ \A r \in DOMAIN req :
             (req[r].kind = "isale" /\ req[r].pc = "select"
              /\ req'[r].pc = "insert")
                => req'[r].pct = agents[req[r].aId.val].commission_percent
       /\ \A s \in sales' \ sales :
             \E r \in DOMAIN req :
                /\ req[r].pc = "insert" /\ s.id = req'[r].rowId
                /\ s.commission_percent = req[r].pct
                /\ s.commission_amount =
                      CommissionAmount(s.sale_price, req[r].pct)]_vars

\* a sale row keeps 30 percent after its agent's rate was updated to 20
C6_Witness ==
    \E s \in sales :
       /\ s.commission_percent = 30
       /\ agents[s.agent_id].commission_percent = 20
       /\ s.commission_amount = 3000

\* a request answered 400 is finished, wrote no row and holds nothing
Rejected400Clean ==
    \A r \in Reqs :
       req[r].status = 400
          => /\ req[r].pc = "done"
             /\ RowsOf(r) = {}
             /\ ~req[r].txOpen /\ ~req[r].holds
             /\ req[r].wSale = {} /\ req[r].wPayout = {} /\ req[r].wDelta = 0

\* only a positive price or amount gets past validation and into a row
OnlyValidProceeds ==
    /\ \A r \in Reqs :
          req[r].pc \notin {"idle", "done"}
             => isFinite(req[r].aId) /\ isFinite(req[r].amt)
                /\ req[r].amt.val > 0
    /\ \A s \in sales : s.sale_price > 0
    /\ \A p \in payouts : p.amount > 0

\* C7: a sale or payout rejected with 400 (invalid price, amount or agentId,
\* or insufficient balance) leaves the store as it was: the step that answers
\* 400 changes no table, the request had written nothing, and no row of it
\* ever appears.
C7_RejectionLeavesStore ==
    /\ [](Rejected400Clean /\ OnlyValidProceeds)
    /\ [][\A r \in Reqs :
            (req[r].status /= 400 /\ req'[r].status = 400)
               => /\ Store' = Store
                  /\ req[r].wSale = {} /\ req[r].wPayout = {}
                  /\ req[r].wDelta = 0]_vars

\* a payout answered "insufficient balance" next to a positive balance
C7_Witness ==
    \E r \in Reqs, a \in AgentIds :
       /\ req[r].status = 400 /\ req[r].error = "insufficient balance"
       /\ agents[a].balance > 0

\* C8: every step changes an agent's balance by exactly the change of its
\* committed ledger rows; a request answered 500, or still inside its
\* transaction, has no row in the committed tables.
C8_AllOrNothing ==
    /\ [](\A r \in Reqs :
            (req[r].status = 500 \/ req[r].pc \notin {"idle", "done"})
               => RowsOf(r) = {})
    /\ [][\A a \in AgentIds :
            agents'[a].balance - agents[a].balance
               = LedgerBalance(a)' - LedgerBalance(a)]_vars

\* a request answered 500 while another request's sale is committed
C8_Witness ==
    \E r \in Reqs :
       /\ req[r].status = 500
       /\ sales /= {}
       /\ \E a \in AgentIds : agents[a].balance /= 0

\* C9 on POST /api/payouts of part_003: under the row lock a payout goes on
\* to its INSERT exactly when
\* amount <= balance; the accepted payout adds exactly one row and lowers the
\* balance by amount; the rejected one answers "insufficient balance" with
\* the balance unchanged.
C9_PayoutDecision ==
    [][\A r \in Reqs :
         LET a == req[r].aId.val
         IN  req[r].kind = "payout" /\ req'[r] /= req[r] =>
               /\ (req[r].pc = "select" /\ a \in AgentIds
                   /\ req'[r].pc /= "catch")
                     => /\ req[r].amt.val <= agents[a].balance
                           <=> req'[r].pc = "insert"
                        /\ req[r].amt.val > agents[a].balance
                           <=> req'[r].pc = "rollback400"
               /\ req'[r].status = 200
                     => /\ req[r].amt.val <= agents[a].balance
                        /\ agents'[a].balance = agents[a].balance - req[r].amt.val
                        /\ payouts' = payouts \cup
                              {[id |-> req'[r].rowId, agent_id |-> a,
                                amount |-> req[r].amt.val]}
                        /\ Cardinality(payouts') = Cardinality(payouts) + 1
               /\ (req[r].pc = "rollback400" /\ req'[r].pc = "done")
                     => /\ req'[r].status = 400
                        /\ req'[r].error = "insufficient balance"
                        /\ req[r].amt.val > agents[a].balance
                        /\ Store' = Store]_vars

\* a payout equal to the balance was accepted and left balance 0
C9_Witness ==
    \E r \in Reqs :
       /\ req[r].kind = "payout" /\ req[r].status = 200
       /\ req[r].amt.val = 1000
       /\ agents[req[r].aId.val].balance = 0
       /\ Cardinality(PayoutsOf(req[r].aId.val)) = 1

\* C9 on POST /api/agents/:id/payouts of src/index.js: a payout is accepted
\* (its row is inserted and it is answered 200) only when its amount is at
\* most the agent's balance at that moment.
C9_AcceptedWithinBalance ==
    [][\A r \in DOMAIN req :
         (req[r].kind = "ipayout" /\ req[r].status /= 200
          /\ req'[r].status = 200)
            => req[r].amt.val <= agentTotals(req[r].aId.val).balance]_vars

\* C10: a sale or payout whose SELECT finds no agent row takes no lock, goes
\* to ROLLBACK and is answered 404 with its transaction closed (500 when the
\* ROLLBACK itself fails); no row of it is ever inserted.
C10_UnknownAgent ==
    /\ [](\A r \in Reqs :
            (req[r].status = 404 \/ req[r].pc = "rollback404")
               => /\ RowsOf(r) = {}
                  /\ ~req[r].holds
                  /\ req[r].wSale = {} /\ req[r].wPayout = {}
                  /\ req[r].status = 404 => req[r].pc = "done" /\ ~req[r].txOpen)
    /\ [][\A r \in Reqs :
            /\ (req[r].pc = "select" /\ req[r].aId.val \notin AgentIds
                /\ req'[r] /= req[r])
                  => req'[r].pc \in {"rollback404", "catch"}
            /\ (req[r].pc = "rollback404" /\ req'[r] /= req[r])
                  => /\ Store' = Store
                     /\ \/ req'[r].status = 404
                        \/ req'[r].pc = "catch"
            /\ (req[r].status /= 404 /\ req'[r].status = 404)
                  => req[r].pc = "rollback404"]_vars

\* a sale and a payout both answered 404
C10_Witness ==
    \E r1, r2 \in Reqs :
       /\ req[r1].kind = "sale" /\ req[r1].status = 404
       /\ req[r2].kind = "payout" /\ req[r2].status = 404

\* C11 on the values of one sale: the row a sale commits carries the
\* commission the request computed from the rate it read under the lock, the
\* balance grows by that same value, and the response returns it together
\* with the rate stored in the row.
C11_OneValue ==
    [][\A r \in Reqs :
         LET a == req[r].aId.val
         IN  /\ (req[r].kind = "sale" /\ req[r].pc = "select"
                 /\ req'[r].pc = "insert")
                   => /\ req'[r].pct = agents[a].commission_percent
                      /\ req'[r].camt =
                            CommissionAmount(req[r].amt.val, req'[r].pct)
             /\ (req[r].kind = "sale" /\ req[r].status /= 200
                 /\ req'[r].status = 200)
                   => /\ sales' \ sales =
                            {[id |-> req'[r].rowId, agent_id |-> a,
                              sale_price |-> req[r].amt.val,
                              commission_percent |-> req'[r].pct,
                              commission_amount |-> req'[r].camt]}
                      /\ agents'[a].balance = agents[a].balance + req'[r].camt
                      /\ req'[r].camt = req[r].camt /\ req'[r].pct = req[r].pct]_vars

\* a sale of 100.00 at 10 percent answered 200 with commission 10.00
C11_Witness ==
    \E r \in Reqs, s \in sales :
       /\ req[r].kind = "sale" /\ req[r].status = 200 /\ s.id = req[r].rowId
       /\ req[r].camt = 1000 /\ s.commission_amount = 1000
       /\ agents[s.agent_id].balance = 1000

\* C11: the commission a sale computes is salePrice x commission_percent / 100
\* as exact decimal arithmetic gives it.
C11_CommissionExact ==
    \A r \in DOMAIN req :
       (req[r].kind = "sale" /\ req[r].pc = "insert")
          => req[r].camt = DecimalCommission(req[r].amt.val, req[r].pct)

\* C12: every agent's commission_percent lies in 0..100 in every reachable
\* state.
C12_PercentInRange ==
    \A a \in AgentIds :
       agents[a].commission_percent >= 0 /\ agents[a].commission_percent <= 100

\* C13: customerId is optional: a sale request that names an existing agent
\* and a positive salePrice is never answered "customerId required".
C13_CustomerOptional ==
    [][\A r \in DOMAIN req :
         (/\ req[r].pc = "idle" /\ req'[r].kind = "isale"
          /\ isFinite(req'[r].aId) /\ req'[r].aId.val \in AgentIds
          /\ isFinite(req'[r].amt) /\ req'[r].amt.val > 0)
            => ~(req'[r].status = 400
                 /\ req'[r].error = "customerId required")]_vars

\* the secret the running server holds
Secret == IF server.file = "part_003" THEN API_KEY ELSE IAPI_KEY

\* the request carries the token: as its x-api-key header, or after the word
\* Bearer of its authorization header
Carries(h, token) ==
    \/ h.xApiKey = Text(token)
    \/ /\ Truthy(h.authorization)
       /\ StartsWith(h.authorization.val, "Bearer ")
       /\ Trim(DropPrefix(h.authorization.val, "Bearer ")) = token

\* C14: with the secret configured, a request to a protected endpoint gets
\* past auth only if it carries a token equal to the secret; a request that
\* carries no such token is answered 401, and a request answered 401 has
\* touched no table.
C14_AdmittedOnlyWithSecret ==
    [][\A r \in Reqs :
         (req[r].pc = "received" /\ req'[r].pc = "done") =>
            LET secret == Secret
                carried == Carries(req[r].headers, secret)
            IN  secret /= ""
                   => /\ req'[r].status /= 401 => carried
                      /\ ~carried => req'[r].status = 401
                      /\ req'[r].status = 401 => Store' = Store]_vars

\* one request without the secret answered 401 and one with it answered 200,
\* its agent stored
C14_Witness ==
    /\ Secret /= ""
    /\ \E r \in Reqs :
          /\ req[r].pc = "done" /\ req[r].kind = "agent"
          /\ ~Carries(req[r].headers, Secret) /\ req[r].status = 401
    /\ \E r \in Reqs :
          /\ req[r].pc = "done" /\ req[r].kind = "agent"
          /\ Carries(req[r].headers, Secret) /\ req[r].status = 200
          /\ req[r].rowId \in AgentIds

\* C15: when the environment holds no API_KEY, or an empty one, every request
\* to a protected endpoint is answered 500.
C15_MissingSecretIs500 ==
    \A r \in Reqs :
       (req[r].pc = "done" /\ req[r].kind = "agent" /\ ~Truthy(server.env))
          => req[r].status = 500

\* C16: the balance a report returns equals the commission total it returns
\* minus the payouts total it returns.
C16_ReportOneState ==
    \A r \in Reqs :
       (req[r].kind = "report" /\ req[r].status = 200)
          => req[r].cur.balance =
                req[r].report.commissionTotal - req[r].report.payoutsTotal

\* C17: the UPDATE of PUT /api/agents/:id leaves every field that the request
\* omits with the value the agent had.
C17_OmittedFieldsKept ==
    [][\A r \in DOMAIN req :
         (req[r].kind = "put" /\ req[r].pc = "update" /\ req'[r].status = 200)
            => LET a == req[r].aId.val
                   b == req[r].body
               IN  /\ b.name = NoText => agents'[a].name = agents[a].name
                   /\ b.phone = NoText => agents'[a].phone = agents[a].phone
                   /\ b.pct.t = "undef" =>
                         agents'[a].commission_percent =
                            agents[a].commission_percent]_vars

\* C17, the rest of it: a step of PUT /api/agents/:id changes no sale, no
\* payout, no balance, no other agent and the number of agents; the fields
\* the request supplies take the supplied values; a 404 changes nothing.
C17_UpdateFrame ==
    [][\A r \in DOMAIN req :
         (req[r].kind = "put" /\ req'[r] /= req[r]) =>
            /\ sales' = sales /\ payouts' = payouts
            /\ Len(agents') = Len(agents)
            /\ \A a \in AgentIds :
                  /\ agents'[a].balance = agents[a].balance
                  /\ (a /= req[r].aId.val \/ req'[r].status /= 200)
                        => agents'[a] = agents[a]
            /\ (req[r].pc = "update" /\ req'[r].status = 200) =>
                  LET a == req[r].aId.val
                      b == req[r].body
                  IN  /\ b.name /= NoText => agents'[a].name = b.name
                      /\ b.pct.t /= "undef" =>
                            agents'[a].commission_percent = b.pct.val
            /\ req'[r].status = 404 => Store' = Store]_vars

\* C18: a sale or payout whose agentId is not a number, or whose price or
\* amount is not a positive number, never has BEGIN issued for it and never
\* holds a lock: whatever is past validation was given a number as agentId
\* and a positive number as price or amount.
C18_MalformedNeverBegins ==
    \A r \in Reqs :
       (req[r].kind \in {"sale", "payout"} /\ req[r].pc \notin {"idle", "done"})
          => /\ req[r].given.agentId.t = "num"
             /\ req[r].given.amount.t = "num"
             /\ req[r].given.amount.val > 0

\* C18 for what Number() turns into NaN or into a number that is not
\* positive: such a request is answered 400 in the step that reads its body,
\* with no BEGIN, no lock and no table changed, and it stays that way.
C18_RejectedBeforeBegin ==
    /\ [](\A r \in Reqs :
            (/\ req[r].kind \in {"sale", "payout"}
             /\ "given" \in DOMAIN req[r]
             /\ \/ ~isFinite(Number(req[r].given.agentId))
                \/ ~isFinite(Number(req[r].given.amount))
                \/ Number(req[r].given.amount).val <= 0)
               => /\ req[r].pc = "done" /\ req[r].status = 400
                  /\ ~req[r].txOpen /\ ~req[r].holds)
    /\ [][\A r \in Reqs :
            (req[r].pc = "idle" /\ req'[r].status = 400)
               => Store' = Store]_vars

\* C19: once a sale or payout has been answered and its client released, the
\* transaction it opened is closed: committed or rolled back.
C19_NoTransactionLeftOpen ==
    \A r \in Reqs :
       (req[r].kind \in {"sale", "payout"} /\ req[r].pc = "done")
          => ~req[r].txOpen /\ ~req[r].holds

\* the locked read of r returns the row and r holds its lock
LockedRead(r) == (SaleSelect(r) \/ PayoutSelect(r)) /\ req'[r].holds

\* the COMMIT of r succeeds
Commits(r) == (SaleCommit(r) \/ PayoutCommit(r)) /\ req'[r].status = 200

\* C20: a sale or payout waiting at its locked read of agent A can take the
\* lock whenever no other request holds the lock of A, whatever locks are
\* held on other agents; and a request at COMMIT can commit whatever
\* transactions are open.
C20_NoSharedLock ==
    \A r \in Reqs :
       LET a == req[r].aId.val
       IN  /\ (/\ req[r].kind \in {"sale", "payout"} /\ req[r].pc = "select"
               /\ a \in AgentIds
               /\ \A o \in Reqs \ {r} :
                     ~(req[o].holds /\ req[o].aId.val = a))
                 => ENABLED LockedRead(r)
           /\ (req[r].kind \in {"sale", "payout"} /\ req[r].pc = "commit")
                 => ENABLED Commits(r)

\* one request is at its COMMIT holding the lock of agent A while another,
\* inside its own open transaction, holds the lock of agent B
C20_Witness ==
    \E r1, r2 \in Reqs :
       /\ req[r1].kind = "sale" /\ req[r1].pc = "commit"
       /\ req[r1].txOpen /\ req[r1].holds
       /\ req[r2].kind = "sale" /\ req[r2].pc = "insert"
       /\ req[r2].txOpen /\ req[r2].holds
       /\ req[r1].aId.val /= req[r2].aId.val
       /\ {req[r1].aId.val, req[r2].aId.val} \subseteq AgentIds

\* C21: sale and payout rows are append-only: no step deletes a committed sale
\* or payout row or changes a field of one; of an agent that exists a step
\* changes nothing but the balance, and no agent disappears.
C21_AppendOnly ==
    [][/\ sales \subseteq sales'
       /\ payouts \subseteq payouts'
       /\ Len(agents') >= Len(agents)
       /\ \A a \in AgentIds :
             /\ agents'[a].name = agents[a].name
             /\ agents'[a].phone = agents[a].phone
             /\ agents'[a].commission_percent =
                   agents[a].commission_percent]_vars

\* a committed sale and, after it, a committed payout of the same agent: the
\* sale row is still there and the balance has moved twice
C21_Witness ==
    \E s \in sales, p \in payouts :
       /\ s.agent_id = p.agent_id
       /\ s.commission_amount = 1000 /\ p.amount = 1000
       /\ agents[s.agent_id].balance = 0
       /\ \A r \in Reqs : req[r].pc = "done" /\ req[r].status = 200

\* the list h has the entries committed later before those committed earlier
MostRecentFirst(h) ==
    \A i, j \in 1..Len(h) : i < j => h[i].applied > h[j].applied

\* C22: the sales, and the payouts, of a report that was answered are listed
\* most-recent-first: of two entries the one committed later comes first.
C22_MostRecentFirst ==
    \A r \in HistReqs :
       (req[r].kind = "report" /\ req[r].status = 200)
          => /\ MostRecentFirst(req[r].report.sales)
             /\ MostRecentFirst(req[r].report.payouts)

\* C22 for entries whose transactions started at different times of the
\* store's clock: of two such sales of a report that was answered the one
\* committed later comes first.
C22_DistinctStartTimes ==
    \A r \in HistReqs :
       (req[r].kind = "report" /\ req[r].status = 200)
          => LET h == req[r].report.sales
             IN  \A i, j \in 1..Len(h) :
                    (i < j /\ h[i].created_at /= h[j].created_at)
                       => h[i].applied > h[j].applied

\* C23: under fair scheduling and a store that answers every statement, a
\* sale or payout that has arrived is answered, with its transaction closed
\* and its lock released, whether it waits for the row lock or holds it.
C23_NoDeadlock ==
    \A r \in Reqs :
       (req[r].pc /= "idle")
          ~> (req[r].pc = "done" /\ ~req[r].txOpen /\ ~req[r].holds)

\* a request waits at its locked read while another holds the lock of the
\* same agent
C23_Witness ==
    \E r1, r2 \in Reqs :
       /\ req[r1].pc = "select" /\ req[r2].holds
       /\ req[r1].aId = req[r2].aId
       /\ ~RowLockFree(r1, req[r1].aId.val)

\* C24: every sale or payout request is answered exactly once, on every path:
\* a handler that has ended has sent a response, and a response once sent is
\* not followed by another.
C24_ExactlyOneResponse ==
    /\ [](\A r \in Reqs :
            (req[r].kind \in {"sale", "payout"} /\ req[r].pc = "done")
               => req[r].status /= 0)
    /\ [][\A r \in Reqs :
            req[r].status /= 0 => req'[r].status = req[r].status]_vars

\* C24 on the paths on which pool.connect() resolved: a statement of the
\* transaction fails, the ROLLBACK of catch fails
C24_AnsweredOnceConnected ==
    /\ [](\A r \in Reqs :
            (req[r].kind \in {"sale", "payout"} /\ req[r].pc = "done")
               => req[r].status /= 0)
    /\ [][\A r \in Reqs :
            req[r].status /= 0 => req'[r].status = req[r].status]_vars
    /\ [](\A r \in Reqs : req[r].pc = "catch" => req[r].status = 0)

\* C25: two concurrent updates of one agent that supply different fields both
\* take effect: when a PUT writes, a field it does not supply and that
\* another request has changed since this PUT read the row keeps the value
\* the other request wrote.
C25_BothTakeEffect ==
    [][\A r \in DOMAIN req :
         (req[r].kind = "put" /\ req[r].pc = "update" /\ req'[r].status = 200)
            => LET a == req[r].aId.val
                   b == req[r].body
                   cur == req[r].cur
               IN  /\ (b.name = NoText /\ agents[a].name /= cur.name)
                         => agents'[a].name = agents[a].name
                   /\ (b.phone = NoText /\ agents[a].phone /= cur.phone)
                         => agents'[a].phone = agents[a].phone
                   /\ (b.pct.t = "undef"
                       /\ agents[a].commission_percent
                             /= cur.commission_percent)
                         => agents'[a].commission_percent =
                               agents[a].commission_percent]_vars

====
